---- MODULE Spec2Model ----
(* A model of wpt_analyzer.py: WPTReportParser, WPTReportComparator and      *)
(* classify_change.  Strings that the program concatenates or searches       *)
(* (test identifiers, sub-test names, output lines) are sequences of string  *)
(* tokens, so that f"{test}::{name}" is a concatenation and "key occurs in   *)
(* the output" is a sub-sequence test.  JSON objects are records whose       *)
(* DOMAIN is the set of keys present, so that a missing key is a record      *)
(* without that field.                                                       *)
EXTENDS Integers, Sequences, FiniteSets, TLC

VARIABLES file_a, file_b, parser_a, parser_b, old_status, new_status, call, ret

vars == <<file_a, file_b, parser_a, parser_b, old_status, new_status, call, ret>>

-----------------------------------------------------------------------------
(* Bounds of the input universe.                                             *)

MaxTests == 2
MaxSubtests == 2
MaxDetails == 1

-----------------------------------------------------------------------------
(* Module constants, lines 6-28.                                             *)

GREEN == "GREEN"
RED == "RED"
ORANGE == "ORANGE"
BOLD == "BOLD"
RESET == "RESET"

REGRESSION == "Regression"
IMPROVEMENT == "Improvement"
LATERAL == "Lateral"
NO_CHANGE == "No Change"

PASS == "PASS"
OK == "OK"
FAIL == "FAIL"
TIMEOUT == "TIMEOUT"
ERROR == "ERROR"
CRASH == "CRASH"

KnownLabels == {PASS, OK, FAIL, TIMEOUT, ERROR, CRASH}

(* STATUS_RANK.get(status, 3) *)
STATUS_RANK_get(status) ==
    CASE status = PASS -> 0
      [] status = OK -> 1
      [] status \in {FAIL, TIMEOUT, ERROR, CRASH} -> 2
      [] OTHER -> 3

(* `status in [PASS, OK]` *)
IsPassing(status) == status \in {PASS, OK}

classify_change_swapped(old, new) ==
    LET old_rank == STATUS_RANK_get(old)
        new_rank == STATUS_RANK_get(new)
    IN  IF old_rank > new_rank THEN <<REGRESSION, RED>>
        ELSE IF old_rank < new_rank THEN <<IMPROVEMENT, GREEN>>
        ELSE IF old_rank = new_rank /\ old # new THEN <<LATERAL, ORANGE>>
        ELSE <<NO_CHANGE, RESET>>

classify_change_ge(old, new) ==
    LET old_rank == STATUS_RANK_get(old)
        new_rank == STATUS_RANK_get(new)
    IN  IF old_rank >= new_rank THEN <<IMPROVEMENT, GREEN>>
        ELSE IF old_rank < new_rank THEN <<REGRESSION, RED>>
        ELSE IF old_rank = new_rank /\ old # new THEN <<LATERAL, ORANGE>>
        ELSE <<NO_CHANGE, RESET>>

classify_change(old, new) ==
    LET old_rank == STATUS_RANK_get(old)
        new_rank == STATUS_RANK_get(new)
    IN  IF old_rank > new_rank THEN <<IMPROVEMENT, GREEN>>
        ELSE IF old_rank < new_rank THEN <<REGRESSION, RED>>
        ELSE IF old_rank = new_rank /\ old # new THEN <<LATERAL, ORANGE>>
        ELSE <<NO_CHANGE, RESET>>

-----------------------------------------------------------------------------
(* Python's ordering of the strings and tuples that the program sorts.       *)

(* Code-point order of the tokens names are made of: ':' < 'a' < 'b'.        *)
TokOrd(t) ==
    CASE t = "::" -> 0
      [] t = "a" -> 1
      [] t = "b" -> 2
      [] OTHER -> 3

RECURSIVE StrLess(_, _)
(* s < t for two strings given as token sequences *)
StrLess(s, t) ==
    IF t = <<>> THEN FALSE
    ELSE IF s = <<>> THEN TRUE
    ELSE IF Head(s) = Head(t) THEN StrLess(Tail(s), Tail(t))
    ELSE TokOrd(Head(s)) < TokOrd(Head(t))

(* Alphabetical position of an outcome label. *)
LabelOrd(l) ==
    CASE l = "CRASH" -> 0
      [] l = "ERROR" -> 1
      [] l = "FAIL" -> 2
      [] l = "NOTRUN" -> 3
      [] l = "OK" -> 4
      [] l = "PASS" -> 5
      [] l = "SKIP" -> 6
      [] l = "TIMEOUT" -> 7
      [] OTHER -> 8

(* sorted(seq, key=...): Python's sort is stable, so elements whose keys     *)
(* compare equal keep their input order.  less[i][j] tells whether the sort  *)
(* key of seq[i] is smaller than that of seq[j]; the element at input        *)
(* position i lands after every element that is smaller, or equal and        *)
(* earlier in the input.                                                     *)
Sorted(seq, less) ==
    LET n == Len(seq)
        Before(j, i) == less[j][i] \/ (~less[i][j] /\ j < i)
        pos(i) == Cardinality({j \in 1..n : Before(j, i)}) + 1
    IN  [p \in 1..n |-> seq[CHOOSE i \in 1..n : pos(i) = p]]

(* seq[:n] for n >= 0 *)
Take(seq, n) == SubSeq(seq, 1, IF n < Len(seq) THEN n ELSE Len(seq))

RECURSIVE Flatten(_)
(* the concatenation of a sequence of sequences *)
Flatten(ss) == IF ss = <<>> THEN <<>> ELSE Head(ss) \o Flatten(Tail(ss))

Range(f) == {f[i] : i \in DOMAIN f}

(* sorted(S, key=...) of a collection without duplicates under a total      *)
(* order of the keys, less[y][x] telling whether y sorts before x: the       *)
(* result does not depend on the iteration order.                            *)
SortSet(S, less) ==
    [p \in 1..Cardinality(S) |->
        CHOOSE x \in S : Cardinality({y \in S : less[y][x]}) = p - 1]

(* collections.Counter over a sequence of labels *)
Counter(seq) ==
    [l \in Range(seq) |-> Cardinality({i \in DOMAIN seq : seq[i] = l})]

(* key=lambda s: (STATUS_RANK.get(s, 3), s) on two labels *)
RankLabelLess(s, t) ==
    \/ STATUS_RANK_get(s) < STATUS_RANK_get(t)
    \/ (STATUS_RANK_get(s) = STATUS_RANK_get(t) /\ LabelOrd(s) < LabelOrd(t))

(* sorted(labels, key=lambda s: (STATUS_RANK.get(s, 3), s)) *)
SortedLabels(labels) ==
    SortSet(labels, [s \in labels |-> [t \in labels |-> RankLabelLess(s, t)]])

(* Results of a call: a value, tagged by its kind, or a raised exception.    *)
Raise(e) == [tag |-> "raise", exc |-> e]
Raised(r) == r.tag = "raise"

-----------------------------------------------------------------------------
(* class WPTReportParser, lines 49-140.                                      *)

None == [tag |-> "None"]

(* __init__: json.loads(json_data), then data.get("results", []) *)
WPTReportParser(data) ==
    [tag |-> "Parser",
     results |-> IF "results" \in DOMAIN data THEN data.results ELSE <<>>]

(* result.get("subtests", []) *)
SubtestsOf(result) ==
    IF "subtests" \in DOMAIN result THEN result.subtests ELSE <<>>

(* `for result in self.results for subtest in result.get("subtests", [])`    *)
SubtestPairs(results) ==
    Flatten([i \in 1..Len(results) |->
        [j \in 1..Len(SubtestsOf(results[i])) |->
            [result |-> results[i], subtest |-> SubtestsOf(results[i])[j]]]])

get_total_tests(p) == Len(p.results)

get_total_subtests(p) == Len(SubtestPairs(p.results))

get_status_summary(p, for_subtests) ==
    IF for_subtests
    THEN LET pairs == SubtestPairs(p.results)
         IN  IF \E i \in DOMAIN pairs : "status" \notin DOMAIN pairs[i].subtest
             THEN Raise("KeyError")
             ELSE [tag |-> "counter",
                   count |-> Counter([i \in DOMAIN pairs |-> pairs[i].subtest.status])]
    ELSE IF \E i \in DOMAIN p.results : "status" \notin DOMAIN p.results[i]
         THEN Raise("KeyError")
         ELSE [tag |-> "counter",
               count |-> Counter([i \in DOMAIN p.results |-> p.results[i].status])]

FlatKeySingleColon(test, name) == test \o <<":">> \o name

(* f"{result['test']}::{subtest['name']}" *)
FlatKey(test, name) == test \o <<"::">> \o name

(* A dict comprehension over a sequence of (key, value): a later entry with  *)
(* the same key replaces the earlier one.                                    *)
DictOf(keys, values) ==
    [k \in Range(keys) |->
        values[CHOOSE i \in DOMAIN keys :
                  keys[i] = k /\ \A j \in DOMAIN keys : keys[j] = k => j <= i]]

get_results(p, for_subtests) ==
    IF for_subtests
    THEN LET pairs == SubtestPairs(p.results)
         IN  IF \E i \in DOMAIN pairs :
                    \/ "test" \notin DOMAIN pairs[i].result
                    \/ "name" \notin DOMAIN pairs[i].subtest
                    \/ "status" \notin DOMAIN pairs[i].subtest
             THEN Raise("KeyError")
             ELSE [tag |-> "dict",
                   map |-> DictOf(
                       [i \in DOMAIN pairs |->
                           FlatKey(pairs[i].result.test, pairs[i].subtest.name)],
                       [i \in DOMAIN pairs |-> pairs[i].subtest.status])]
    ELSE IF \E i \in DOMAIN p.results :
                \/ "test" \notin DOMAIN p.results[i]
                \/ "status" \notin DOMAIN p.results[i]
         THEN Raise("KeyError")
         ELSE [tag |-> "dict",
               map |-> DictOf([i \in DOMAIN p.results |-> p.results[i].test],
                              [i \in DOMAIN p.results |-> p.results[i].status])]

(* key=lambda x: (STATUS_RANK.get(x["status"], 3), x["test"]) *)
DetailLess(x, y) ==
    \/ STATUS_RANK_get(x.status) < STATUS_RANK_get(y.status)
    \/ /\ STATUS_RANK_get(x.status) = STATUS_RANK_get(y.status)
       /\ StrLess(x.test, y.test)

(* sorted(details, key=lambda x: (STATUS_RANK.get(x["status"], 3), x["test"])) *)
SortedDetails(details) ==
    Sorted(details,
           [i \in DOMAIN details |->
               [j \in DOMAIN details |-> DetailLess(details[i], details[j])]])

get_details(p, for_subtests) ==
    IF for_subtests
    THEN LET pairs == SubtestPairs(p.results)
         IN  IF \E i \in DOMAIN pairs :
                    \/ "test" \notin DOMAIN pairs[i].result
                    \/ "name" \notin DOMAIN pairs[i].subtest
                    \/ "status" \notin DOMAIN pairs[i].subtest
             THEN Raise("KeyError")
             ELSE [tag |-> "list",
                   items |-> SortedDetails(
                       [i \in DOMAIN pairs |->
                           [test |-> pairs[i].result.test,
                            subtest |-> pairs[i].subtest.name,
                            status |-> pairs[i].subtest.status]])]
    ELSE IF \E i \in DOMAIN p.results :
                \/ "test" \notin DOMAIN p.results[i]
                \/ "status" \notin DOMAIN p.results[i]
         THEN Raise("KeyError")
         ELSE [tag |-> "list", items |-> SortedDetails(p.results)]

(* `GREEN if status in [PASS, OK] else RED` *)
StatusColor(status) == IF IsPassing(status) THEN GREEN ELSE RED

HasMoreOffByOne(n, max_details) == n >= max_details

(* `if len(details) > max_details`, lines 123, 213 and 230 *)
HasMore(n, max_details) == n > max_details

(* The lines of details[:max_details], then the marker when there are more  *)
(* entries: item_lines has the line of every entry, more is the marker.      *)
TruncatedLines(item_lines, max_details, more) ==
    Take(item_lines, max_details)
    \o (IF HasMore(Len(item_lines), max_details) THEN <<more>> ELSE <<>>)

(* format_single_file_report.add_summary, lines 103-111.  The column widths  *)
(* of `{status:<10}` only pad with blanks and are left out.                  *)
single_add_summary(title, total, status_summary) ==
    LET statuses == SortedLabels(DOMAIN status_summary)
    IN  << <<"\n", BOLD, title, RESET, ": ", ToString(total)>>,
           <<"\n", BOLD, title, " Status Summary:", RESET>> >>
        \o [i \in DOMAIN statuses |->
               <<"  ", statuses[i], " ", StatusColor(statuses[i]),
                 ToString(status_summary[statuses[i]]), RESET>>]

(* one entry of format_single_file_report.add_details, lines 116-122 *)
SingleDetailLine(item) ==
    IF "subtest" \in DOMAIN item
    THEN <<"  ", StatusColor(item.status)>> \o item.test \o <<"::">> \o item.subtest
         \o <<" (", item.status, ")", RESET>>
    ELSE <<"  ", StatusColor(item.status)>> \o item.test
         \o <<" (", item.status, ")", RESET>>

SingleMoreLine(n) == <<"  ... and ", ToString(n), " more">>

(* format_single_file_report.add_details, lines 113-124 *)
single_add_details(title, details, max_details) ==
    << <<"\n", BOLD, title, RESET, ":">> >>
    \o TruncatedLines([i \in DOMAIN details |-> SingleDetailLine(details[i])],
                      max_details, SingleMoreLine(Len(details) - max_details))

(* `if detail_level in ["all", "changes"]`, lines 128 and 137 *)
SingleDetailsGate(detail_level) == detail_level \in {"all", "changes"}

(* format_single_file_report(detail_level, show_subtests, max_details); the  *)
(* signature has no other parameter, so any other keyword is a TypeError.    *)
format_single_file_report(p, kw) ==
    IF kw.show_passing # "absent" THEN Raise("TypeError")
    ELSE
    LET gate == SingleDetailsGate(kw.detail_level)
        sum_t == get_status_summary(p, FALSE)
        det_t == get_details(p, FALSE)
        sum_s == get_status_summary(p, TRUE)
        det_s == get_details(p, TRUE)
    IN  IF \/ Raised(sum_t)
           \/ (gate /\ Raised(det_t))
           \/ (kw.show_subtests /\ Raised(sum_s))
           \/ (kw.show_subtests /\ gate /\ Raised(det_s))
        THEN Raise("KeyError")
        ELSE [tag |-> "output",
              lines |->
                 single_add_summary("Tests", get_total_tests(p), sum_t.count)
                 \o (IF gate
                     THEN single_add_details("Test Details", det_t.items,
                                             kw.max_details)
                     ELSE <<>>)
                 \o (IF kw.show_subtests
                     THEN single_add_summary("Subtests", get_total_subtests(p),
                                             sum_s.count)
                          \o (IF gate
                              THEN single_add_details("Subtest Details",
                                       det_s.items, kw.max_details)
                              ELSE <<>>)
                     ELSE <<>>)]

-----------------------------------------------------------------------------
(* class WPTReportComparator, lines 143-332.                                 *)

(* __init__(parser_a, parser_b, detail_level, max_details, show_subtests),   *)
(* lines 144-157: there is no show_passing parameter, so a call that passes  *)
(* the keyword raises TypeError and no comparator exists.                    *)
WPTReportComparator(kw) ==
    IF kw.show_passing # "absent" THEN Raise("TypeError")
    ELSE [tag |-> "Comparator", detail_level |-> kw.detail_level,
          max_details |-> kw.max_details, show_subtests |-> kw.show_subtests]

compare_counts_reversed(a, b) == [file_a |-> a, file_b |-> b, difference |-> a - b]

(* compare_counts, lines 159-164 *)
compare_counts(a, b) == [file_a |-> a, file_b |-> b, difference |-> b - a]

(* summary.get(status, 0) *)
CountGet(summary, status) ==
    IF status \in DOMAIN summary THEN summary[status] ELSE 0

(* compare_summaries, lines 166-176 *)
compare_summaries(summary_a, summary_b) ==
    [status \in DOMAIN summary_a \cup DOMAIN summary_b |->
        compare_counts(CountGet(summary_a, status), CountGet(summary_b, status))]

(* compare_results, lines 178-196.  all_tests is a Python set: `order` is    *)
(* the order in which the three comprehensions happen to iterate it.         *)
compare_results_b_only(results_a, results_b, order) ==
    LET only_b == SelectSeq(order, LAMBDA t : t \notin DOMAIN results_a)
        both == SelectSeq(order, LAMBDA t : /\ t \in DOMAIN results_a
                                            /\ t \in DOMAIN results_b
                                            /\ results_a[t] # results_b[t])
    IN  [tag |-> "analysis",
         new |-> [i \in DOMAIN only_b |-> <<only_b[i], results_b[only_b[i]]>>],
         removed |-> <<>>,
         status_changes |->
             [i \in DOMAIN both |->
                 <<both[i], results_a[both[i]], results_b[both[i]]>>]]

compare_results_every_common(results_a, results_b, order) ==
    LET only_b == SelectSeq(order, LAMBDA t : t \notin DOMAIN results_a)
        only_a == SelectSeq(order, LAMBDA t : t \notin DOMAIN results_b)
        both == SelectSeq(order, LAMBDA t : /\ t \in DOMAIN results_a
                                            /\ t \in DOMAIN results_b)
    IN  [tag |-> "analysis",
         new |-> [i \in DOMAIN only_b |-> <<only_b[i], results_b[only_b[i]]>>],
         removed |-> [i \in DOMAIN only_a |-> <<only_a[i], results_a[only_a[i]]>>],
         status_changes |->
             [i \in DOMAIN both |->
                 <<both[i], results_a[both[i]], results_b[both[i]]>>]]

compare_results(results_a, results_b, order) ==
    LET only_b == SelectSeq(order, LAMBDA t : t \notin DOMAIN results_a)
        only_a == SelectSeq(order, LAMBDA t : t \notin DOMAIN results_b)
        both == SelectSeq(order, LAMBDA t : /\ t \in DOMAIN results_a
                                            /\ t \in DOMAIN results_b
                                            /\ results_a[t] # results_b[t])
    IN  [tag |-> "analysis",
         new |-> [i \in DOMAIN only_b |-> <<only_b[i], results_b[only_b[i]]>>],
         removed |-> [i \in DOMAIN only_a |-> <<only_a[i], results_a[only_a[i]]>>],
         status_changes |->
             [i \in DOMAIN both |->
                 <<both[i], results_a[both[i]], results_b[both[i]]>>]]

(* The iteration orders a set of keys can have. *)
Orders(S) ==
    {o \in [1..Cardinality(S) -> S] : \A k \in S : \E i \in DOMAIN o : o[i] = k}

(* Python's order of the tuples (item, status) and (test, old, new): the     *)
(* first components are compared first, the labels break ties.               *)
TupleLess(x, y) ==
    \/ StrLess(x[1], y[1])
    \/ /\ x[1] = y[1]
       /\ \E i \in 2..Len(x) :
             /\ LabelOrd(x[i]) < LabelOrd(y[i])
             /\ \A j \in 2..(i - 1) : x[j] = y[j]

(* sorted(category) and sorted(changes) *)
SortedTuples(list) ==
    Sorted(list,
           [i \in DOMAIN list |-> [j \in DOMAIN list |-> TupleLess(list[i], list[j])]])

(* str.capitalize() of the two change types *)
Capitalize(change_type) ==
    CASE change_type = "new" -> "New"
      [] change_type = "removed" -> "Removed"
      [] OTHER -> change_type

(* one entry and the marker of _add_details, lines 212-216 *)
CategoryLine(color, entry) ==
    <<"      ", color>> \o entry[1] \o <<" (", entry[2], ")", RESET>>

CategoryMore(color, n) == <<"      ", color, "... and ", ToString(n), " more", RESET>>

(* the loop body of _add_details for one of (passing, GREEN), (non_passing,  *)
(* RED), lines 206-216 *)
CategoryLines(category, color, max_details) ==
    IF category = <<>> THEN <<>>
    ELSE << <<IF color = GREEN THEN "    Passing:" ELSE "    Non-passing:">> >>
         \o TruncatedLines(
                [i \in DOMAIN category |->
                    CategoryLine(color, SortedTuples(category)[i])],
                max_details, CategoryMore(color, Len(category) - max_details))

(* _add_details, lines 198-216 *)
add_details(items, change_type, max_details) ==
    IF items = <<>> THEN <<>>
    ELSE << <<"\n  ", Capitalize(change_type), " Details:">> >>
         \o CategoryLines(SelectSeq(items, LAMBDA e : IsPassing(e[2])),
                          GREEN, max_details)
         \o CategoryLines(SelectSeq(items, LAMBDA e : ~IsPassing(e[2])),
                          RED, max_details)

(* one entry and the marker of _add_change_details, lines 229-233 *)
ChangeLine(color, change) ==
    <<"    ", color>> \o change[1] \o <<": ", change[3], RESET>>

ChangeMore(color, n) == <<"    ", color, "... and ", ToString(n), " more", RESET>>

(* _add_change_details, lines 218-233 *)
add_change_details(analysis, change_type, color, max_details) ==
    LET changes == SelectSeq(analysis.status_changes,
                       LAMBDA c : classify_change(c[2], c[3])[1] = change_type)
    IN  IF changes = <<>> THEN <<>>
        ELSE << <<"\n  ", change_type, "s:">> >>
             \o TruncatedLines(
                    [i \in DOMAIN changes |->
                        ChangeLine(color, SortedTuples(changes)[i])],
                    max_details, ChangeMore(color, Len(changes) - max_details))

(* `if self.detail_level in ["all", change_type]`, line 253 *)
CategoryDetailsGate(detail_level, change_type) ==
    detail_level \in {"all", change_type}

ChangeDetailsGateChangesOnly(detail_level) == detail_level = "changes"

(* `if self.detail_level in ["all", "changes"]`, line 273 *)
ChangeDetailsGate(detail_level) == detail_level \in {"all", "changes"}

(* the loop body of format_analysis for one change_type, lines 238-254 *)
CategorySummary(entries, change_type, cmp) ==
    LET count == Len(entries)
        color == IF change_type = "new" /\ count > 0 THEN GREEN
                 ELSE IF change_type = "removed" /\ count > 0 THEN RED
                 ELSE RESET
        status_counts == Counter([i \in DOMAIN entries |-> entries[i][2]])
        statuses == SortedLabels(DOMAIN status_counts)
    IN  << <<"  ", Capitalize(change_type), ": ", color, ToString(count), RESET>> >>
        \o [i \in DOMAIN statuses |->
               <<"    ", statuses[i], ": ", StatusColor(statuses[i]),
                 ToString(status_counts[statuses[i]]), RESET>>]
        \o (IF CategoryDetailsGate(cmp.detail_level, change_type)
            THEN add_details(entries, change_type, cmp.max_details)
            ELSE <<>>)

(* The sort key of a "old->new" tally entry, lines 262-266: the ranks, then  *)
(* the string, which for labels that are no prefix of one another orders as  *)
(* the pair of labels does.                                                  *)
ChangeKeyLess(c, d) ==
    LET rc == <<STATUS_RANK_get(c[1]), STATUS_RANK_get(c[2]),
                LabelOrd(c[1]), LabelOrd(c[2])>>
        rd == <<STATUS_RANK_get(d[1]), STATUS_RANK_get(d[2]),
                LabelOrd(d[1]), LabelOrd(d[2])>>
    IN  \E i \in 1..4 : rc[i] < rd[i] /\ \A j \in 1..(i - 1) : rc[j] = rd[j]

(* the "Changed status:" tally of format_analysis, lines 256-271 *)
ChangedStatusLines(status_changes) ==
    LET change_counts ==
            Counter([i \in DOMAIN status_changes |->
                        <<status_changes[i][2], status_changes[i][3]>>])
        changes == SortSet(DOMAIN change_counts,
                       [c \in DOMAIN change_counts |->
                           [d \in DOMAIN change_counts |-> ChangeKeyLess(c, d)]])
        shown == SelectSeq(changes,
                     LAMBDA c : classify_change(c[1], c[2])[1] # NO_CHANGE)
    IN  << <<"  Changed status:">> >>
        \o [i \in DOMAIN shown |->
               <<"    ", shown[i][1], "->", shown[i][2], ": ",
                 classify_change(shown[i][1], shown[i][2])[2],
                 ToString(change_counts[shown[i]]), " ", RESET>>]

(* format_analysis, lines 235-277 *)
format_analysis(analysis, title, cmp) ==
    << <<"\n", BOLD, title, RESET, ":">> >>
    \o CategorySummary(analysis.new, "new", cmp)
    \o CategorySummary(analysis.removed, "removed", cmp)
    \o ChangedStatusLines(analysis.status_changes)
    \o (IF ChangeDetailsGate(cmp.detail_level)
        THEN add_change_details(analysis, REGRESSION, RED, cmp.max_details)
             \o add_change_details(analysis, IMPROVEMENT, GREEN, cmp.max_details)
        ELSE <<>>)

(* color_diff, lines 42-46 *)
color_diff(value, positive_good) ==
    IF value = 0 THEN <<ToString(value)>>
    ELSE <<IF (value > 0) = positive_good THEN GREEN ELSE RED,
           ToString(value), RESET>>

(* _format_count_change, lines 317-318 *)
format_count_change(title, counts) ==
    <<title, ": ", ToString(counts.file_a), " -> ", ToString(counts.file_b), " (">>
    \o color_diff(counts.difference, TRUE) \o <<")">>

(* _format_status_summary, lines 320-332, without the column padding *)
format_status_summary(title, summary) ==
    LET statuses == SortedLabels(DOMAIN summary)
    IN  << <<"\n", BOLD, title, " Status Summary", RESET, ":">> >>
        \o [i \in DOMAIN statuses |->
               <<"  ", statuses[i], " ", ToString(summary[statuses[i]].file_a),
                 " -> ", ToString(summary[statuses[i]].file_b), " (">>
               \o color_diff(summary[statuses[i]].difference,
                             IsPassing(statuses[i]))
               \o <<")">>]

(* format_comparison.add_summary, lines 282-289 *)
comparison_add_summary(title, total_a, total_b, summary_a, summary_b) ==
    << <<"\n", BOLD, title, RESET, ":">>,
       format_count_change("Total", compare_counts(total_a, total_b)) >>
    \o format_status_summary(title, compare_summaries(summary_a, summary_b))

(* One scope of format_comparison: the headline, then the analysis. *)
ScopeLines(pa, pb, cmp, for_subtests, order) ==
    comparison_add_summary(
        IF for_subtests THEN "Subtests" ELSE "Tests",
        IF for_subtests THEN get_total_subtests(pa) ELSE get_total_tests(pa),
        IF for_subtests THEN get_total_subtests(pb) ELSE get_total_tests(pb),
        get_status_summary(pa, for_subtests).count,
        get_status_summary(pb, for_subtests).count)
    \o format_analysis(
           compare_results(get_results(pa, for_subtests).map,
                           get_results(pb, for_subtests).map, order),
           IF for_subtests THEN "Detailed Subtest Summary"
           ELSE "Detailed Test Summary",
           cmp)

(* A scope raises when a field it reads is missing from either report. *)
ScopeRaises(pa, pb, for_subtests) ==
    \/ Raised(get_status_summary(pa, for_subtests))
    \/ Raised(get_status_summary(pb, for_subtests))
    \/ Raised(get_results(pa, for_subtests))
    \/ Raised(get_results(pb, for_subtests))

(* The keys of both reports at one scope: all_tests of compare_results. *)
AllKeys(pa, pb, for_subtests) ==
    DOMAIN get_results(pa, for_subtests).map
    \cup DOMAIN get_results(pb, for_subtests).map

(* WPTReportComparator(parser_a, parser_b, **kw).format_comparison(), lines  *)
(* 279-315; order_t and order_s are the iteration orders of the two key      *)
(* sets.                                                                     *)
format_comparison(pa, pb, kw, order_t, order_s) ==
    LET cmp == WPTReportComparator(kw)
    IN  IF Raised(cmp) THEN cmp
        ELSE IF \/ ScopeRaises(pa, pb, FALSE)
                \/ (cmp.show_subtests /\ ScopeRaises(pa, pb, TRUE))
        THEN Raise("KeyError")
        ELSE [tag |-> "output",
              lines |-> ScopeLines(pa, pb, cmp, FALSE, order_t)
                        \o (IF cmp.show_subtests
                            THEN ScopeLines(pa, pb, cmp, TRUE, order_s)
                            ELSE <<>>)]

-----------------------------------------------------------------------------
(* The inputs: report documents, keyword arguments, outcome labels.          *)

AllLabels == KnownLabels \cup {"SKIP", "NOTRUN"}
TestNames == {<<"a">>, <<"b">>}
SubtestNames == {<<"a">>, <<"b">>}
DetailLevels == {"summary", "new", "removed", "changes", "all"}

SeqsUpTo(S, n) == UNION {[1..k -> S] : k \in 0..n}

(* Reports of tests without sub-tests, named and labelled from two sets. *)
TestDocs(names, labels) ==
    {[results |-> rs] :
        rs \in SeqsUpTo([test : names, status : labels], MaxTests)}

(* Reports of one test with sub-tests. *)
SubtestDocs ==
    {[results |-> <<[test |-> <<"a">>, status |-> OK, subtests |-> ss]>>] :
        ss \in SeqsUpTo([name : SubtestNames, status : {PASS, FAIL}], MaxSubtests)}

(* Documents without `results`, or with an entry that lacks a field, and     *)
(* complete ones to compare them with: no test, a test with a sub-test, a    *)
(* test with a sub-test next to a test without any.                          *)
MalformedDocs ==
    {[run_info |-> "x"],
     [results |-> <<[status |-> PASS]>>],
     [results |-> <<[test |-> <<"a">>]>>],
     [results |-> <<[test |-> <<"a">>, status |-> OK,
                     subtests |-> <<[status |-> FAIL]>>]>>],
     [results |-> <<[test |-> <<"a">>, status |-> OK,
                     subtests |-> <<[name |-> <<"a">>]>>]>>],
     [results |-> <<[status |-> OK,
                     subtests |-> <<[name |-> <<"a">>, status |-> FAIL]>>]>>]}

MixedDocs ==
    MalformedDocs
    \cup {[results |-> <<>>],
          [results |-> <<[test |-> <<"a">>, status |-> OK,
                          subtests |-> <<[name |-> <<"a">>, status |-> FAIL]>>]>>],
          [results |-> <<[test |-> <<"a">>, status |-> OK,
                          subtests |-> <<[name |-> <<"b">>, status |-> PASS]>>],
                         [test |-> <<"b">>, status |-> FAIL]>>]}

(* The two reports of a comparison are drawn from the same family. *)
DocFamilies ==
    {TestDocs(TestNames, {PASS, FAIL}), TestDocs({<<"a">>}, {PASS, FAIL, CRASH}),
     SubtestDocs, MixedDocs}

NoFile == [tag |-> "NoFile"]
File(data) == [tag |-> "File", data |-> data]

(* The keyword arguments of the two render calls: those the signatures have, *)
(* and the calls of the test suite that also pass show_passing.              *)
RenderKw ==
    [detail_level : DetailLevels, max_details : {0, MaxDetails},
     show_subtests : BOOLEAN, show_passing : {"absent"}]
    \cup [detail_level : {"changes", "all"}, max_details : {MaxDetails},
          show_subtests : {FALSE}, show_passing : {"true", "false"}]

NoCall == [op |-> "none"]
NoRet == [tag |-> "none"]

Init ==
    /\ \/ /\ \E docs \in DocFamilies :
                /\ file_a \in {File(d) : d \in docs}
                /\ file_b \in {File(d) : d \in docs} \cup {NoFile}
          /\ old_status = PASS
          /\ new_status = PASS
       \/ /\ file_a = NoFile
          /\ file_b = NoFile
          /\ old_status \in AllLabels
          /\ new_status \in AllLabels
    /\ parser_a = None
    /\ parser_b = None
    /\ call = NoCall
    /\ ret = NoRet

-----------------------------------------------------------------------------
(* The operations.  A behaviour constructs the parsers, as main() does in    *)
(* lines 367-372, and then makes one call.                                   *)

ParserInitA ==
    /\ call = NoCall
    /\ file_a.tag = "File"
    /\ parser_a = None
    /\ parser_a' = WPTReportParser(file_a.data)
    /\ UNCHANGED <<file_a, file_b, parser_b, old_status, new_status, call, ret>>

ParserInitB ==
    /\ call = NoCall
    /\ file_b.tag = "File"
    /\ parser_a # None
    /\ parser_b = None
    /\ parser_b' = WPTReportParser(file_b.data)
    /\ UNCHANGED <<file_a, file_b, parser_a, old_status, new_status, call, ret>>

(* A call on the one report of a session without a second file. *)
SingleReady == call = NoCall /\ parser_a # None /\ file_b = NoFile

(* A call on the two reports. *)
PairReady == call = NoCall /\ parser_a # None /\ parser_b # None

Finish(c, r) ==
    /\ call' = c
    /\ ret' = r
    /\ UNCHANGED <<file_a, file_b, parser_a, parser_b, old_status, new_status>>

CallClassifyChange ==
    /\ call = NoCall
    /\ Finish([op |-> "classify_change"],
              [tag |-> "change", kind |-> classify_change(old_status, new_status)[1],
               color |-> classify_change(old_status, new_status)[2]])

CallGetTotal ==
    /\ SingleReady
    /\ \E sub \in BOOLEAN :
          Finish([op |-> "get_total", for_subtests |-> sub],
                 [tag |-> "int",
                  n |-> IF sub THEN get_total_subtests(parser_a)
                        ELSE get_total_tests(parser_a)])

CallGetStatusSummary ==
    /\ SingleReady
    /\ \E sub \in BOOLEAN :
          Finish([op |-> "get_status_summary", for_subtests |-> sub],
                 get_status_summary(parser_a, sub))

CallGetResults ==
    /\ SingleReady
    /\ \E sub \in BOOLEAN :
          Finish([op |-> "get_results", for_subtests |-> sub],
                 get_results(parser_a, sub))

CallGetDetails ==
    /\ SingleReady
    /\ \E sub \in BOOLEAN :
          Finish([op |-> "get_details", for_subtests |-> sub],
                 get_details(parser_a, sub))

CallFormatSingle ==
    /\ SingleReady
    /\ \E kw \in RenderKw :
          Finish([op |-> "format_single_file_report", kw |-> kw],
                 format_single_file_report(parser_a, kw))

(* The keys compare_results iterates, none when get_results raises. *)
SafeKeys(for_subtests) ==
    IF ScopeRaises(parser_a, parser_b, for_subtests) THEN {}
    ELSE AllKeys(parser_a, parser_b, for_subtests)

(* compare_results(parser_a.get_results(..), parser_b.get_results(..)) *)
CallCompareResults ==
    /\ PairReady
    /\ \E sub \in BOOLEAN :
          \E order \in Orders(SafeKeys(sub)) :
             Finish([op |-> "compare_results", for_subtests |-> sub],
                    IF \/ Raised(get_results(parser_a, sub))
                       \/ Raised(get_results(parser_b, sub))
                    THEN Raise("KeyError")
                    ELSE compare_results(get_results(parser_a, sub).map,
                                         get_results(parser_b, sub).map, order))

(* compare_counts(WPTReportParser.get_total_tests) and                       *)
(* compare_counts(WPTReportParser.get_total_subtests), lines 283 and 291-304 *)
CallCompareCounts ==
    /\ PairReady
    /\ \E sub \in BOOLEAN :
          Finish([op |-> "compare_counts", for_subtests |-> sub],
                 [tag |-> "counts",
                  counts |-> IF sub
                             THEN compare_counts(get_total_subtests(parser_a),
                                                 get_total_subtests(parser_b))
                             ELSE compare_counts(get_total_tests(parser_a),
                                                 get_total_tests(parser_b))])

(* compare_summaries(WPTReportParser.get_status_summary) and                 *)
(* compare_summaries(lambda parser: parser.get_status_summary(True)),        *)
(* lines 286 and 291-306                                                     *)
CallCompareSummaries ==
    /\ PairReady
    /\ \E sub \in BOOLEAN :
          Finish([op |-> "compare_summaries", for_subtests |-> sub],
                 IF \/ Raised(get_status_summary(parser_a, sub))
                    \/ Raised(get_status_summary(parser_b, sub))
                 THEN Raise("KeyError")
                 ELSE [tag |-> "summaries",
                       statuses |->
                           compare_summaries(get_status_summary(parser_a, sub).count,
                                             get_status_summary(parser_b, sub).count)])

CallFormatComparison ==
    /\ PairReady
    /\ \E kw \in RenderKw :
          \E order_t \in Orders(SafeKeys(FALSE)), order_s \in Orders(SafeKeys(TRUE)) :
             Finish([op |-> "format_comparison", kw |-> kw],
                    format_comparison(parser_a, parser_b, kw, order_t, order_s))

Next ==
    \/ ParserInitA
    \/ ParserInitB
    \/ CallClassifyChange
    \/ CallGetTotal
    \/ CallGetStatusSummary
    \/ CallGetResults
    \/ CallGetDetails
    \/ CallFormatSingle
    \/ CallCompareCounts
    \/ CallCompareSummaries
    \/ CallCompareResults
    \/ CallFormatComparison

Spec == Init /\ [][Next]_vars

-----------------------------------------------------------------------------
(* Vocabulary of the properties.                                             *)

(* The rank table and the change categories as the specification states      *)
(* them.                                                                     *)
SpecRank(label) ==
    IF label = "PASS" THEN 0
    ELSE IF label = "OK" THEN 1
    ELSE IF label \in {"FAIL", "TIMEOUT", "ERROR", "CRASH"} THEN 2
    ELSE 3

SpecKind(old, new) ==
    IF old = new THEN "No Change"
    ELSE IF SpecRank(old) > SpecRank(new) THEN "Improvement"
    ELSE IF SpecRank(old) < SpecRank(new) THEN "Regression"
    ELSE "Lateral"

(* The outcome mappings of the two reports at one scope. *)
ResultsA(sub) == get_results(parser_a, sub).map
ResultsB(sub) == get_results(parser_b, sub).map

(* The entries a diff of the two mappings has, as sets. *)
NewEntries(sub) ==
    {<<k, ResultsB(sub)[k]>> : k \in DOMAIN ResultsB(sub) \ DOMAIN ResultsA(sub)}
RemovedEntries(sub) ==
    {<<k, ResultsA(sub)[k]>> : k \in DOMAIN ResultsA(sub) \ DOMAIN ResultsB(sub)}
ChangedEntries(sub) ==
    {<<k, ResultsA(sub)[k], ResultsB(sub)[k]>> :
        k \in {t \in DOMAIN ResultsA(sub) \cap DOMAIN ResultsB(sub) :
                  ResultsA(sub)[t] # ResultsB(sub)[t]}}
ChangedOfKind(sub, kind) ==
    {c \in ChangedEntries(sub) : SpecKind(c[2], c[3]) = kind}

(* A finished call of one operation, and one that returned an output. *)
Called(op) == call.op = op
Rendered(op) == call.op = op /\ ret.tag = "output"

(* The scopes a rendered comparison covers. *)
Scopes == IF call.kw.show_subtests THEN {FALSE, TRUE} ELSE {FALSE}

(* The first index at which a sequence of booleans is TRUE, 0 if none. *)
FirstTrue(flags) ==
    IF \E i \in DOMAIN flags : flags[i]
    THEN CHOOSE i \in DOMAIN flags : flags[i] /\ \A j \in 1..(i - 1) : ~flags[j]
    ELSE 0

(* The lines of one scope of a rendered comparison: the sub-test scope       *)
(* starts at its "Subtests" headline.                                        *)
ScopeSection(lines, sub) ==
    LET s == FirstTrue([i \in DOMAIN lines |->
                           lines[i] = <<"\n", BOLD, "Subtests", RESET, ":">>])
    IN  IF sub THEN (IF s = 0 THEN <<>> ELSE SubSeq(lines, s, Len(lines)))
        ELSE (IF s = 0 THEN lines ELSE SubSeq(lines, 1, s - 1))

(* The lines after the first position flagged in `from` up to the next      *)
(* position flagged in `until` (the end when there is none); no lines when   *)
(* no position is flagged in `from`.                                         *)
Between(lines, from, until) ==
    LET f == FirstTrue(from)
        rest == IF f = 0 THEN <<>> ELSE SubSeq(lines, f + 1, Len(lines))
        u == FirstTrue([i \in DOMAIN rest |-> until[f + i]])
    IN  IF u = 0 THEN rest ELSE SubSeq(rest, 1, u - 1)

IsCountLine(l, name) == Len(l) >= 2 /\ l[1] = "  " /\ l[2] = name

(* The parts of one scope's analysis: after the "New:" count, after the      *)
(* "Removed:" count, after "Changed status:".                                *)
NewBlock(sec) ==
    Between(sec, [i \in DOMAIN sec |-> IsCountLine(sec[i], "New")],
                 [i \in DOMAIN sec |-> IsCountLine(sec[i], "Removed")])
RemovedBlock(sec) ==
    Between(sec, [i \in DOMAIN sec |-> IsCountLine(sec[i], "Removed")],
                 [i \in DOMAIN sec |-> sec[i] = <<"  Changed status:">>])
ChangedBlock(sec) ==
    Between(sec, [i \in DOMAIN sec |-> sec[i] = <<"  Changed status:">>],
                 [i \in DOMAIN sec |-> FALSE])

HasLine(lines, line) == \E i \in DOMAIN lines : lines[i] = line

(* The entry lines that follow a header: the lines after it that start with  *)
(* the indentation of its entries.                                           *)
RunAfter(lines, header, indents) ==
    Between(lines, [i \in DOMAIN lines |-> lines[i] = header],
                   [i \in DOMAIN lines |-> lines[i][1] \notin indents])

(* A list rendered with the cap m.  expected holds, for every entry of the   *)
(* list, its key and its line (the keys are unique): the run has the lines   *)
(* of the first m entries in ascending key order, then the marker `more`     *)
(* when there are more than m entries, and nothing else.                     *)
ListTruncated(run, expected, m, more) ==
    LET N == Cardinality(expected)
        shown == IF N > m THEN m ELSE N
    IN  /\ Len(run) = shown + (IF N > m THEN 1 ELSE 0)
        /\ \A i \in 1..shown :
              \E e \in expected :
                  /\ Cardinality({f \in expected : StrLess(f[1], e[1])}) = i - 1
                  /\ run[i] = e[2]
        /\ N > m => run[shown + 1] = more

(* The same for a list whose lines are given in its order. *)
SeqTruncated(run, expected, m, more) ==
    LET N == Len(expected)
        shown == IF N > m THEN m ELSE N
    IN  /\ Len(run) = shown + (IF N > m THEN 1 ELSE 0)
        /\ \A i \in 1..shown : run[i] = expected[i]
        /\ N > m => run[shown + 1] = more

-----------------------------------------------------------------------------
(* C1: compare_results puts every key of the two mappings in exactly one of  *)
(* new (key only in B, with B's outcome), removed (key only in A, with A's   *)
(* outcome), status_changes (key in both, outcomes differ, old then new) or  *)
(* none of them (key in both, same outcome); no key appears twice in or      *)
(* across the lists, and no key outside the two mappings appears.            *)
Occurrences(list, k) == Cardinality({i \in DOMAIN list : list[i][1] = k})

C1_ComparePartitions ==
    (Called("compare_results") /\ ret.tag = "analysis") =>
        LET sub == call.for_subtests
            A == ResultsA(sub)
            B == ResultsB(sub)
            n(k) == Occurrences(ret.new, k)
            r(k) == Occurrences(ret.removed, k)
            c(k) == Occurrences(ret.status_changes, k)
        IN  /\ \A k \in DOMAIN A \cup DOMAIN B :
                  /\ n(k) + r(k) + c(k) <= 1
                  /\ n(k) = 1 <=> k \notin DOMAIN A
                  /\ r(k) = 1 <=> k \notin DOMAIN B
                  /\ c(k) = 1 <=> (k \in DOMAIN A /\ k \in DOMAIN B /\ A[k] # B[k])
            /\ \A i \in DOMAIN ret.new :
                  /\ ret.new[i][1] \in DOMAIN B
                  /\ ret.new[i] = <<ret.new[i][1], B[ret.new[i][1]]>>
            /\ \A i \in DOMAIN ret.removed :
                  /\ ret.removed[i][1] \in DOMAIN A
                  /\ ret.removed[i] = <<ret.removed[i][1], A[ret.removed[i][1]]>>
            /\ \A i \in DOMAIN ret.status_changes :
                  LET k == ret.status_changes[i][1]
                  IN  /\ k \in DOMAIN A \cap DOMAIN B
                      /\ ret.status_changes[i] = <<k, A[k], B[k]>>

(* A diff with one removed key and one changed key has been computed. *)
C1_Witness ==
    /\ Called("compare_results")
    /\ ret.tag = "analysis"
    /\ Len(ret.removed) = 1
    /\ Len(ret.status_changes) = 1
    /\ Len(ret.new) = 0

-----------------------------------------------------------------------------
(* C2: classify_change is total over the outcome labels, the unrecognized    *)
(* ones included: Improvement iff rank(old) > rank(new), Regression iff      *)
(* rank(old) < rank(new), Lateral iff the ranks are equal and the labels     *)
(* differ, No Change iff the labels are equal, with the ranks PASS 0, OK 1,  *)
(* FAIL, TIMEOUT, ERROR, CRASH 2 and any other label 3.                      *)
C2_ClassifyByRank ==
    Called("classify_change") =>
        /\ ret.tag = "change"
        /\ ret.kind = "Improvement" <=> SpecRank(old_status) > SpecRank(new_status)
        /\ ret.kind = "Regression" <=> SpecRank(old_status) < SpecRank(new_status)
        /\ ret.kind = "Lateral" <=> (/\ SpecRank(old_status) = SpecRank(new_status)
                                     /\ old_status # new_status)
        /\ ret.kind = "No Change" <=> old_status = new_status

(* Two different unrecognized labels have been classified. *)
C2_Witness ==
    /\ Called("classify_change")
    /\ old_status = "SKIP"
    /\ new_status = "NOTRUN"
    /\ ret.kind = "Lateral"

-----------------------------------------------------------------------------
(* The calls of the test suite that pass show_passing=False, on reports      *)
(* whose entries are complete.                                               *)
FailuresOnlyComparison ==
    /\ Called("format_comparison")
    /\ call.kw.show_passing = "false"
    /\ ~ScopeRaises(parser_a, parser_b, FALSE)

(* key occurs in the text of some line *)
Occurs(key, lines) ==
    \E i \in DOMAIN lines :
        \E o \in 1..Len(lines[i]) :
            /\ o + Len(key) - 1 <= Len(lines[i])
            /\ SubSeq(lines[i], o, o + Len(key) - 1) = key

(* C3: with show_passing=false a comparison is rendered in which every      *)
(* Regression (within max_details) and every newly failing entry that the    *)
(* detail level itemizes is still listed, and the headline counts are those  *)
(* of the two reports.                                                       *)
C3_FailuresOnlyKeepsRegressions ==
    FailuresOnlyComparison =>
        /\ ret.tag = "output"
        /\ \A c \in ChangedOfKind(FALSE, "Regression") :
              Cardinality(ChangedOfKind(FALSE, "Regression")) <= call.kw.max_details
                  => HasLine(ret.lines, ChangeLine(RED, c))
        /\ \A e \in {f \in NewEntries(FALSE) : ~IsPassing(f[2])} :
              (/\ call.kw.detail_level = "all"
               /\ Cardinality({f \in NewEntries(FALSE) : ~IsPassing(f[2])})
                      <= call.kw.max_details)
                  => HasLine(ret.lines, CategoryLine(RED, e))
        /\ HasLine(ret.lines,
               format_count_change("Total",
                   compare_counts(get_total_tests(parser_a),
                                  get_total_tests(parser_b))))

(* C4: with show_passing=false a comparison is rendered in which the key of  *)
(* a new entry that is PASS or OK, and the key of an Improvement, occur      *)
(* nowhere.                                                                  *)
C4_FailuresOnlyHidesPassing ==
    FailuresOnlyComparison =>
        /\ ret.tag = "output"
        /\ \A e \in NewEntries(FALSE) :
              IsPassing(e[2]) => ~Occurs(e[1], ret.lines)
        /\ \A c \in ChangedOfKind(FALSE, "Improvement") : ~Occurs(c[1], ret.lines)

(* C5: the detail level decides which itemized lists a rendered comparison   *)
(* has: none for summary; New Details for new; Removed Details for removed;  *)
(* Regressions, Improvements and also New and Removed Details for changes;   *)
(* all of them for all (each list only when it has entries).                 *)
C5_DetailLevelGating ==
    Rendered("format_comparison") =>
        \A sub \in Scopes :
            LET sec == ScopeSection(ret.lines, sub)
                d == call.kw.detail_level
            IN  /\ HasLine(sec, <<"\n  ", "New", " Details:">>)
                       <=> (d \in {"new", "changes", "all"} /\ NewEntries(sub) # {})
                /\ HasLine(sec, <<"\n  ", "Removed", " Details:">>)
                       <=> (d \in {"removed", "changes", "all"}
                            /\ RemovedEntries(sub) # {})
                /\ HasLine(sec, <<"\n  ", "Regression", "s:">>)
                       <=> (d \in {"changes", "all"}
                            /\ ChangedOfKind(sub, "Regression") # {})
                /\ HasLine(sec, <<"\n  ", "Improvement", "s:">>)
                       <=> (d \in {"changes", "all"}
                            /\ ChangedOfKind(sub, "Improvement") # {})

-----------------------------------------------------------------------------
(* C7: every rendered detail list (Test and Subtest Details of a single      *)
(* report; the Passing and Non-passing groups of New and Removed Details,    *)
(* the Regressions and the Improvements of a comparison) with N entries and  *)
(* the cap max_details shows, when N > max_details, exactly the first        *)
(* max_details entries in sorted order and then one marker `... and          *)
(* N - max_details more`, and otherwise all N entries and no marker.         *)
GroupTruncated(block, passing, E) ==
    LET header == <<IF passing THEN "    Passing:" ELSE "    Non-passing:">>
        color == IF passing THEN GREEN ELSE RED
        group == {e \in E : IsPassing(e[2]) = passing}
    IN  HasLine(block, header) =>
            ListTruncated(RunAfter(block, header, {"      "}),
                          {<<e[1], CategoryLine(color, e)>> : e \in group},
                          call.kw.max_details,
                          CategoryMore(color,
                              Cardinality(group) - call.kw.max_details))

ChangesTruncated(block, kind, color, E) ==
    HasLine(block, <<"\n  ", kind, "s:">>) =>
        ListTruncated(RunAfter(block, <<"\n  ", kind, "s:">>, {"    "}),
                      {<<c[1], ChangeLine(color, c)>> : c \in E},
                      call.kw.max_details,
                      ChangeMore(color, Cardinality(E) - call.kw.max_details))

SingleTruncated(title, sub) ==
    LET details == get_details(parser_a, sub).items
    IN  HasLine(ret.lines, <<"\n", BOLD, title, RESET, ":">>) =>
            SeqTruncated(RunAfter(ret.lines, <<"\n", BOLD, title, RESET, ":">>,
                                  {"  ", "  ... and "}),
                         [i \in DOMAIN details |-> SingleDetailLine(details[i])],
                         call.kw.max_details,
                         SingleMoreLine(Len(details) - call.kw.max_details))

C7_ListsTruncated ==
    /\ Rendered("format_comparison") =>
          \A sub \in Scopes :
              LET sec == ScopeSection(ret.lines, sub)
              IN  /\ \A passing \in BOOLEAN :
                        /\ GroupTruncated(NewBlock(sec), passing, NewEntries(sub))
                        /\ GroupTruncated(RemovedBlock(sec), passing,
                                          RemovedEntries(sub))
                  /\ ChangesTruncated(ChangedBlock(sec), "Regression", RED,
                                      ChangedOfKind(sub, "Regression"))
                  /\ ChangesTruncated(ChangedBlock(sec), "Improvement", GREEN,
                                      ChangedOfKind(sub, "Improvement"))
    /\ Rendered("format_single_file_report") =>
          /\ SingleTruncated("Test Details", FALSE)
          /\ SingleTruncated("Subtest Details", TRUE)

(* A comparison with two Regressions has been rendered with max_details 1:   *)
(* one entry and the marker for the other.                                   *)
C7_Witness ==
    /\ Rendered("format_comparison")
    /\ call.kw.detail_level = "changes"
    /\ call.kw.max_details = 1
    /\ Cardinality(ChangedOfKind(FALSE, "Regression")) = 2
    /\ HasLine(ret.lines, ChangeMore(RED, 1))

-----------------------------------------------------------------------------
(* C8: get_details returns, for both scopes, all entries of the scope sorted *)
(* ascending by (rank(outcome), flat key), the flat key of a sub-test being  *)
(* parent::child: of two adjacent entries the earlier has the lower rank, or *)
(* the same rank and a flat key that is not greater.                         *)
FlatKeyOf(item) ==
    IF "subtest" \in DOMAIN item THEN FlatKey(item.test, item.subtest)
    ELSE item.test

C8_DetailsSortedByFlatKey ==
    (Called("get_details") /\ ret.tag = "list") =>
        /\ Len(ret.items) = (IF call.for_subtests THEN get_total_subtests(parser_a)
                             ELSE get_total_tests(parser_a))
        /\ \A i \in 1..(Len(ret.items) - 1) :
              \/ SpecRank(ret.items[i].status) < SpecRank(ret.items[i + 1].status)
              \/ /\ SpecRank(ret.items[i].status) = SpecRank(ret.items[i + 1].status)
                 /\ ~StrLess(FlatKeyOf(ret.items[i + 1]), FlatKeyOf(ret.items[i]))

-----------------------------------------------------------------------------
(* C9: a report in which two entries of a scope have the same flat key is    *)
(* rejected with an error, so the outcome mapping of an accepted report has  *)
(* as many keys as the scope has entries.                                    *)
C9_DuplicateKeysRejected ==
    (Called("get_results") /\ ret.tag = "dict") =>
        Cardinality(DOMAIN ret.map) =
            (IF call.for_subtests THEN get_total_subtests(parser_a)
             ELSE get_total_tests(parser_a))

-----------------------------------------------------------------------------
(* C10: a document without `results`, or with a test that lacks `test` or    *)
(* `status`, or a sub-test that lacks `name` or `status`, yields no Report:  *)
(* construction fails, and no operation on it returns a value.               *)
Malformed(data) ==
    \/ "results" \notin DOMAIN data
    \/ \E i \in DOMAIN data.results :
          \/ "test" \notin DOMAIN data.results[i]
          \/ "status" \notin DOMAIN data.results[i]
          \/ \E j \in DOMAIN SubtestsOf(data.results[i]) :
                \/ "name" \notin DOMAIN SubtestsOf(data.results[i])[j]
                \/ "status" \notin DOMAIN SubtestsOf(data.results[i])[j]

C10_MalformedRejected ==
    (file_a.tag = "File" /\ Malformed(file_a.data)) =>
        /\ parser_a = None
        /\ call # NoCall => Raised(ret)

-----------------------------------------------------------------------------
(* The single-report calls on a complete document. *)
SingleReportCall ==
    /\ Called("format_single_file_report")
    /\ ~Malformed(file_a.data)

(* The line of one label in the status tally of a single report. *)
TallyLine(label, n) == <<"  ", label, " ", StatusColor(label), ToString(n), RESET>>

(* C11: rendering a single report always emits the summary (the total and    *)
(* the tally of every outcome label, PASS and OK included) and emits the     *)
(* Test Details section iff detail_level is all or changes; with             *)
(* show_passing=false the report is rendered too, no PASS or OK entry has a  *)
(* line in the details and every non-passing entry within max_details has.   *)
C11_SingleReportSections ==
    SingleReportCall =>
        LET results == file_a.data.results
            labels == {results[i].status : i \in DOMAIN results}
            tally(l) == Cardinality({i \in DOMAIN results : results[i].status = l})
            failing == {i \in DOMAIN results : ~IsPassing(results[i].status)}
        IN  /\ ret.tag = "output"
            /\ HasLine(ret.lines,
                   <<"\n", BOLD, "Tests", RESET, ": ", ToString(Len(results))>>)
            /\ \A l \in labels : HasLine(ret.lines, TallyLine(l, tally(l)))
            /\ HasLine(ret.lines, <<"\n", BOLD, "Test Details", RESET, ":">>)
                   <=> call.kw.detail_level \in {"all", "changes"}
            /\ call.kw.show_passing = "false" =>
                  \A i \in DOMAIN results :
                      IF IsPassing(results[i].status)
                      THEN ~HasLine(ret.lines, SingleDetailLine(results[i]))
                      ELSE Cardinality(failing) <= call.kw.max_details
                               => HasLine(ret.lines, SingleDetailLine(results[i]))

-----------------------------------------------------------------------------
(* The sub-tests a complete document declares, by position: test i, its      *)
(* sub-test j.                                                               *)
DeclaredSubtests(data) ==
    UNION {{<<i, j>> : j \in DOMAIN data.results[i].subtests} :
              i \in {t \in DOMAIN data.results :
                        "subtests" \in DOMAIN data.results[t]}}

(* test identifier, two colons, sub-test name *)
ParentChild(data, d) ==
    data.results[d[1]].test \o <<"::">> \o data.results[d[1]].subtests[d[2]].name

(* C12: the sub-test outcome mapping of a report has the key parent::child   *)
(* for every declared sub-test; every key of the mapping is parent::child of *)
(* a declared sub-test and maps to an outcome declared for that key; a test  *)
(* without sub-tests adds no key, and total_subtests() counts the declared   *)
(* sub-tests, 0 for a test that has none.                                    *)
C12_SubtestKeys ==
    LET data == file_a.data
        declared == DeclaredSubtests(data)
    IN  /\ (Called("get_results") /\ call.for_subtests /\ ~Malformed(data)) =>
              /\ ret.tag = "dict"
              /\ \A d \in declared : ParentChild(data, d) \in DOMAIN ret.map
              /\ \A k \in DOMAIN ret.map :
                    \E d \in declared :
                        /\ k = ParentChild(data, d)
                        /\ ret.map[k] = data.results[d[1]].subtests[d[2]].status
        /\ (Called("get_total") /\ call.for_subtests /\ ~Malformed(data)) =>
              ret.n = Cardinality(declared)

(* The sub-test mapping of a report in which one test has a sub-test and     *)
(* another has none has been computed: it has one key.                       *)
C12_Witness ==
    /\ Called("get_results")
    /\ call.for_subtests
    /\ ret.tag = "dict"
    /\ Len(file_a.data.results) = 2
    /\ \E i \in DOMAIN file_a.data.results :
          "subtests" \notin DOMAIN file_a.data.results[i]
    /\ Cardinality(DOMAIN ret.map) = 1

-----------------------------------------------------------------------------
(* The category of the opposite change, new_status to old_status. *)
SwappedKind == classify_change(new_status, old_status)[1]

(* C13: for all labels x and y, when rank(x) # rank(y) one of                *)
(* classify_change(x, y) and classify_change(y, x) is Improvement and the    *)
(* other Regression; when the ranks are equal both are the same category,    *)
(* Lateral if x # y and No Change if x = y.                                  *)
C13_ClassifySwap ==
    Called("classify_change") =>
        IF SpecRank(old_status) # SpecRank(new_status)
        THEN /\ {ret.kind, SwappedKind} = {"Improvement", "Regression"}
             /\ ret.kind = "Improvement" <=> SwappedKind = "Regression"
        ELSE /\ ret.kind = SwappedKind
             /\ ret.kind = (IF old_status # new_status THEN "Lateral"
                            ELSE "No Change")

(* FAIL to PASS has been classified: an Improvement, whose opposite change  *)
(* is a Regression.                                                          *)
C13_Witness ==
    /\ Called("classify_change")
    /\ old_status = "FAIL"
    /\ new_status = "PASS"
    /\ ret.kind = "Improvement"
    /\ SwappedKind = "Regression"

-----------------------------------------------------------------------------
(* A report is compared against itself: both parsers are built from the same *)
(* complete document.                                                        *)
SelfComparison ==
    /\ parser_b # None
    /\ file_a.data = file_b.data
    /\ ~Malformed(file_a.data)

(* C14: comparing a report against itself, at either scope, gives an empty   *)
(* new, an empty removed and an empty status_changes, a total difference of  *)
(* 0 and a difference of 0 for every status.                                 *)
C14_SelfComparisonEmpty ==
    SelfComparison =>
        /\ Called("compare_results") =>
              /\ ret.tag = "analysis"
              /\ ret.new = <<>>
              /\ ret.removed = <<>>
              /\ ret.status_changes = <<>>
        /\ Called("compare_counts") => ret.counts.difference = 0
        /\ Called("compare_summaries") =>
              /\ ret.tag = "summaries"
              /\ \A status \in DOMAIN ret.statuses :
                    ret.statuses[status].difference = 0

(* A report of two tests has been compared against itself. *)
C14_Witness ==
    /\ SelfComparison
    /\ Called("compare_results")
    /\ ~call.for_subtests
    /\ Len(file_a.data.results) = 2
    /\ ret.status_changes = <<>>

-----------------------------------------------------------------------------
(* The number of entries a complete document has at one scope, and whether   *)
(* their flat keys are all different.                                        *)
ScopeTotal(data, sub) ==
    IF sub THEN Cardinality(DeclaredSubtests(data)) ELSE Len(data.results)

UniqueKeys(data, sub) ==
    IF sub
    THEN \A d, e \in DeclaredSubtests(data) :
            ParentChild(data, d) = ParentChild(data, e) => d = e
    ELSE \A i, j \in DOMAIN data.results :
            data.results[i].test = data.results[j].test => i = j

(* The outcome labels of a complete document at one scope. *)
ScopeLabels(data, sub) ==
    IF sub
    THEN {data.results[d[1]].subtests[d[2]].status : d \in DeclaredSubtests(data)}
    ELSE {data.results[i].status : i \in DOMAIN data.results}

RECURSIVE SumDifferences(_, _)
SumDifferences(statuses, S) ==
    IF S = {} THEN 0
    ELSE LET s == CHOOSE x \in S : TRUE
         IN  statuses[s].difference + SumDifferences(statuses, S \ {s})

(* Two complete reports whose flat keys are unique at the scope of the call. *)
UniquePair ==
    /\ parser_b # None
    /\ ~Malformed(file_a.data)
    /\ ~Malformed(file_b.data)
    /\ UniqueKeys(file_a.data, call.for_subtests)
    /\ UniqueKeys(file_b.data, call.for_subtests)

(* C15: for two reports with unique flat keys, at each scope the difference  *)
(* of compare_counts is the total of B minus the total of A and equals       *)
(* len(new) - len(removed) of compare_results on the scope's mappings; the   *)
(* differences of compare_summaries, one for every status of either report,  *)
(* sum to the same number.                                                   *)
C15_HeadlineMatchesDiff ==
    /\ (Called("compare_counts") /\ UniquePair) =>
          LET sub == call.for_subtests
          IN  /\ ret.counts.difference =
                     ScopeTotal(file_b.data, sub) - ScopeTotal(file_a.data, sub)
              /\ \A order \in Orders(SafeKeys(sub)) :
                    LET analysis ==
                            compare_results(ResultsA(sub), ResultsB(sub), order)
                    IN  ret.counts.difference =
                            Len(analysis.new) - Len(analysis.removed)
    /\ (Called("compare_summaries") /\ UniquePair) =>
          LET sub == call.for_subtests
          IN  /\ ret.tag = "summaries"
              /\ DOMAIN ret.statuses =
                     ScopeLabels(file_a.data, sub) \cup ScopeLabels(file_b.data, sub)
              /\ SumDifferences(ret.statuses, DOMAIN ret.statuses) =
                     ScopeTotal(file_b.data, sub) - ScopeTotal(file_a.data, sub)

(* The totals of a report and of one with a further test have been compared: *)
(* the difference is 1 and the diff has one new key.                         *)
C15_Witness ==
    /\ Called("compare_counts")
    /\ UniquePair
    /\ ~call.for_subtests
    /\ ret.counts.difference = 1
    /\ Cardinality(NewEntries(FALSE)) = 1
    /\ RemovedEntries(FALSE) = {}

====
